---------------------------- MODULE Spec2Model ----------------------------
(***************************************************************************)
(* Model of the BrainLink BLE session scripts brainconnect.py (rich packet *)
(* profile, global connected_client handle) and connect.py (minimal packet *)
(* profile, async-with client).                                            *)
(*                                                                         *)
(* Conventions.                                                            *)
(*  - A byte payload is a sequence of integers 0..255; At(data, i) is the  *)
(*    Python expression data[i] (0-based).                                 *)
(*  - A Python call either returns a value or raises: Return(v), Raise(e). *)
(*  - The band values are Python floats (raw / 255) * 100.  They are kept  *)
(*    exactly, as numerators over BandDen: a band field b stands for the   *)
(*    real number b / 255.                                                 *)
(*  - A device name is a record [present, text]: present = FALSE is the    *)
(*    Python None, text is the sequence of its characters.                 *)
(***************************************************************************)
EXTENDS Integers, Sequences, FiniteSets, TLC

\* ------------------------------------------------------------------------
\* Bounds of the model
\* ------------------------------------------------------------------------
\* payload lengths 0..MaxLen
MaxLen == 16
\* the tail of a generated payload repeats a cycle of 1..MaxCycle bytes
MaxCycle == 3
\* scan result sets of 0..MaxScan devices
MaxScan == 2
\* peripherals reporting 0..MaxServices services
MaxServices == 2
\* start requests per run
MaxAttempts == 3
\* notifications delivered per run
MaxNotifs == 2
\* ticks of the event-loop clock per run
MaxTime == 1

\* ------------------------------------------------------------------------
\* Small helpers
\* ------------------------------------------------------------------------
Min(a, b) == IF a < b THEN a ELSE b
Max(a, b) == IF a > b THEN a ELSE b

\* data[i], 0-based, for an index inside the payload
At(data, i) == data[i + 1]

\* data[k:]
SliceFrom(data, k) == [j \in 1..Max(Len(data) - k, 0) |-> data[j + k]]

\* set(seq)
SetOf(seq) == {seq[j] : j \in 1..Len(seq)}

\* the Python None
PyNone == [none |-> TRUE]
IsNone(x) == "none" \in DOMAIN x

Return(v) == [raised |-> FALSE, value |-> v]
Raise(e) == [raised |-> TRUE, value |-> [exception |-> e]]

\* ------------------------------------------------------------------------
\* brainconnect.py: packet decode (rich profile)
\* ------------------------------------------------------------------------
SYNC == 170
BandDen == 255

\* calculate_signal_quality with the validSync row tested before the
\* validSync-and-hasSignal row
calculate_signal_quality_rows_swapped(data) ==
    IF Len(data) < 2 THEN 30
    ELSE LET has_valid_sync == At(data, 0) = SYNC
             has_non_zero_data == \E j \in 1..Len(SliceFrom(data, 2)) : SliceFrom(data, 2)[j] > 0
             has_variation == Cardinality(SetOf(SliceFrom(data, 2))) > 2
         IN IF has_valid_sync /\ has_non_zero_data /\ has_variation THEN 95
            ELSE IF has_valid_sync THEN 60
            ELSE IF has_valid_sync /\ has_non_zero_data THEN 80
            ELSE IF has_non_zero_data THEN 40
            ELSE 20

\* calculate_signal_quality(data)
calculate_signal_quality(data) ==
    IF Len(data) < 2 THEN 30
    ELSE LET has_valid_sync == At(data, 0) = SYNC
             has_non_zero_data == \E j \in 1..Len(SliceFrom(data, 2)) : SliceFrom(data, 2)[j] > 0
             has_variation == Cardinality(SetOf(SliceFrom(data, 2))) > 2
         IN IF has_valid_sync /\ has_non_zero_data /\ has_variation THEN 95
            ELSE IF has_valid_sync /\ has_non_zero_data THEN 80
            ELSE IF has_valid_sync THEN 60
            ELSE IF has_non_zero_data THEN 40
            ELSE 20

\* ClampPercent rescaling the byte like a band instead of truncating it
ClampPercent_rescaled(raw) == Min((Max(raw, 0) * 100) \div BandDen, 100)

\* min(max(raw, 0), 100)
ClampPercent(raw) == Min(Max(raw, 0), 100)

\* min((raw / 255) * 100, 100), as a numerator over BandDen
BandValue(raw) == Min(raw * 100, 100 * BandDen)

\* parse_brainlink_data with the length test off by one: len(data) < 9
parse_brainlink_data_short_guard(data, now) ==
    IF Len(data) < 9 THEN Return([error |-> "Incomplete data"])
    ELSE IF \E i \in 8..14 : i >= Len(data) THEN Raise("IndexError")
    ELSE Return([attention |-> ClampPercent(At(data, 8)),
                 meditation |-> ClampPercent(At(data, 9)),
                 delta |-> BandValue(At(data, 10)),
                 theta |-> BandValue(At(data, 11)),
                 alpha |-> BandValue(At(data, 12)),
                 beta |-> BandValue(At(data, 13)),
                 gamma |-> BandValue(At(data, 14)),
                 signal_quality |-> calculate_signal_quality(data),
                 timestamp |-> now])

\* parse_brainlink_data(data) of brainconnect.py; now is the event loop's clock
parse_brainlink_data(data, now) ==
    IF Len(data) < 10 THEN Return([error |-> "Incomplete data"])
    ELSE IF \E i \in 8..14 : i >= Len(data) THEN Raise("IndexError")
    ELSE Return([attention |-> ClampPercent(At(data, 8)),
                 meditation |-> ClampPercent(At(data, 9)),
                 delta |-> BandValue(At(data, 10)),
                 theta |-> BandValue(At(data, 11)),
                 alpha |-> BandValue(At(data, 12)),
                 beta |-> BandValue(At(data, 13)),
                 gamma |-> BandValue(At(data, 14)),
                 signal_quality |-> calculate_signal_quality(data),
                 timestamp |-> now])

\* ------------------------------------------------------------------------
\* connect.py: packet decode (minimal profile)
\* ------------------------------------------------------------------------
\* parse_brainlink_data(data) of connect.py
connect_parse_brainlink_data(data) ==
    IF Len(data) < 3 THEN Return(PyNone)
    ELSE Return([Attention |-> At(data, 1), Meditation |-> At(data, 2)])

\* ------------------------------------------------------------------------
\* Text: Python str as a sequence of characters
\* ------------------------------------------------------------------------
UpperChars == <<"A", "B", "C", "D", "E", "F", "G", "H", "I", "J", "K", "L", "M", "N", "O", "P", "Q", "R", "S", "T", "U", "V", "W", "X", "Y", "Z">>
LowerChars == <<"a", "b", "c", "d", "e", "f", "g", "h", "i", "j", "k", "l", "m", "n", "o", "p", "q", "r", "s", "t", "u", "v", "w", "x", "y", "z">>

\* str.lower() on one character
LowerChar(c) ==
    IF \E k \in 1..Len(UpperChars) : UpperChars[k] = c
    THEN LowerChars[CHOOSE k \in 1..Len(UpperChars) : UpperChars[k] = c]
    ELSE c

\* s.lower()
Lower(s) == [j \in 1..Len(s) |-> LowerChar(s[j])]

\* sub in s
Contains(s, sub) ==
    \E i \in 0..(Len(s) - Len(sub)) : \A j \in 1..Len(sub) : s[i + j] = sub[j]

\* ------------------------------------------------------------------------
\* Device matching
\* ------------------------------------------------------------------------
\* the keyword list of find_device
NameKeywords == <<<<"b", "r", "a", "i", "n", "l", "i", "n", "k">>,
                  <<"b", "r", "a", "i", "n">>,
                  <<"e", "e", "g">>,
                  <<"n", "e", "u", "r", "o">>>>

\* the substring of scan_for_brainlink
StrictKeyword == <<"B", "r", "a", "i", "n">>

\* device.name or ""
NameOrEmpty(device) == IF device.name.present THEN device.name.text ELSE <<>>

\* the name test of find_device without .lower()
KeywordMatch_case_sensitive(device) ==
    \E k \in 1..Len(NameKeywords) : Contains(NameOrEmpty(device), NameKeywords[k])

\* any(prefix in (device.name or "").lower() for prefix in [...])
KeywordMatch(device) ==
    \E k \in 1..Len(NameKeywords) : Contains(Lower(NameOrEmpty(device)), NameKeywords[k])

\* StrictMatch without the "Brain" test: any non-empty name is accepted
StrictMatch_any_name(device) ==
    /\ device.name.present
    /\ device.name.text # <<>>

\* device.name and "Brain" in device.name
StrictMatch(device) ==
    /\ device.name.present
    /\ device.name.text # <<>>
    /\ Contains(device.name.text, StrictKeyword)

\* the loop of find_device over devices[i..]
RECURSIVE FindDeviceFrom(_, _)
FindDeviceFrom(devices, i) ==
    IF i > Len(devices) THEN PyNone
    ELSE IF KeywordMatch(devices[i]) THEN devices[i]
    ELSE FindDeviceFrom(devices, i + 1)

\* find_device returning the last matching device instead of the first
find_device_last_match(devices) ==
    LET M == {i \in 1..Len(devices) : KeywordMatch(devices[i])}
    IN IF M = {} THEN PyNone
       ELSE devices[CHOOSE m \in M : \A n \in M : n <= m]

\* find_device(), given the result of BleakScanner.discover()
find_device(devices) == FindDeviceFrom(devices, 1)

\* the second loop of scan_for_brainlink over devices[i..]
RECURSIVE ScanForBrainlinkFrom(_, _)
ScanForBrainlinkFrom(devices, i) ==
    IF i > Len(devices) THEN PyNone
    ELSE IF StrictMatch(devices[i]) THEN devices[i]
    ELSE ScanForBrainlinkFrom(devices, i + 1)

\* scan_for_brainlink(), given the result of BleakScanner.discover()
scan_for_brainlink(devices) ==
    IF Len(devices) = 0 THEN PyNone
    ELSE ScanForBrainlinkFrom(devices, 1)

\* ------------------------------------------------------------------------
\* Service and characteristic resolution
\* ------------------------------------------------------------------------
POSSIBLE_SERVICE_UUIDS ==
    <<"0000fee9-0000-1000-8000-00805f9b34fb",
      "0000180f-0000-1000-8000-00805f9b34fb",
      "0000180a-0000-1000-8000-00805f9b34fb",
      "0000ffe0-0000-1000-8000-00805f9b34fb",
      "6e400001-b5a3-f393-e0a9-e50e24dcca9e",
      "00001800-0000-1000-8000-00805f9b34fb",
      "00001801-0000-1000-8000-00805f9b34fb">>

POSSIBLE_CHARACTERISTIC_UUIDS ==
    <<"0000fee1-0000-1000-8000-00805f9b34fb",
      "00002a19-0000-1000-8000-00805f9b34fb",
      "00002a29-0000-1000-8000-00805f9b34fb",
      "6e400003-b5a3-f393-e0a9-e50e24dcca9e",
      "00002a00-0000-1000-8000-00805f9b34fb",
      "00002a01-0000-1000-8000-00805f9b34fb">>

\* the candidate list of connect.py
connect_POSSIBLE_SERVICE_UUIDS ==
    <<"0000fee9-0000-1000-8000-00805f9b34fb",
      "0000180f-0000-1000-8000-00805f9b34fb",
      "0000180a-0000-1000-8000-00805f9b34fb",
      "0000ffe0-0000-1000-8000-00805f9b34fb",
      "6e400001-b5a3-f393-e0a9-e50e24dcca9e",
      "00001800-0000-1000-8000-00805f9b34fb",
      "00001801-0000-1000-8000-00805f9b34fb">>

CHARACTERISTIC_UUID == "0000ffe1-0000-1000-8000-00805f9b34fb"

\* services.get_service(uuid): the service with that UUID, None when there
\* is none; a peripheral reports a service UUID once
get_service(services, uuid) ==
    LET hits == {i \in 1..Len(services) : services[i].uuid = uuid}
    IN IF hits = {} THEN Return(PyNone)
       ELSE Return(services[CHOOSE i \in hits : TRUE])

\* service.get_characteristic(uuid): the characteristic with that UUID or None
get_characteristic(service, uuid) ==
    IF uuid \in service.characteristics
    THEN Return([uuid |-> uuid])
    ELSE Return(PyNone)

\* the service loop of connect_to_device over POSSIBLE_SERVICE_UUIDS[k..]
RECURSIVE ResolveServiceFrom(_, _)
ResolveServiceFrom(services, k) ==
    IF k > Len(POSSIBLE_SERVICE_UUIDS) THEN PyNone
    ELSE LET r == get_service(services, POSSIBLE_SERVICE_UUIDS[k])
         IN IF r.raised THEN ResolveServiceFrom(services, k + 1)
            ELSE IF ~IsNone(r.value) THEN r.value
            ELSE ResolveServiceFrom(services, k + 1)

ResolveService(services) == ResolveServiceFrom(services, 1)

\* the characteristic loop of connect_to_device
RECURSIVE ResolveCharacteristicFrom(_, _)
ResolveCharacteristicFrom(service, k) ==
    IF k > Len(POSSIBLE_CHARACTERISTIC_UUIDS) THEN PyNone
    ELSE LET r == get_characteristic(service, POSSIBLE_CHARACTERISTIC_UUIDS[k])
         IN IF r.raised THEN ResolveCharacteristicFrom(service, k + 1)
            ELSE IF ~IsNone(r.value) THEN r.value
            ELSE ResolveCharacteristicFrom(service, k + 1)

ResolveCharacteristic(service) == ResolveCharacteristicFrom(service, 1)

\* the service loop of connect_to_brainlink over services[i..]
RECURSIVE FoundServiceFrom(_, _)
FoundServiceFrom(services, i) ==
    IF i > Len(services) THEN PyNone
    ELSE IF \E k \in 1..Len(connect_POSSIBLE_SERVICE_UUIDS) :
                services[i].uuid = connect_POSSIBLE_SERVICE_UUIDS[k]
         THEN services[i]
    ELSE FoundServiceFrom(services, i + 1)

FoundService(services) == FoundServiceFrom(services, 1)

\* ------------------------------------------------------------------------
\* Inputs: payloads, scan results, peripherals
\* ------------------------------------------------------------------------
\* byte values of a generated payload's tail
CycBytes == {0, 77, 255}
SyncBytes == {SYNC, 0}
Cycles == UNION {[1..n -> CycBytes] : n \in 1..MaxCycle}

\* the payload of length L with first byte sync, second byte 0 and the
\* bytes from index 2 on repeating cyc
MkPayload(sync, cyc, L) ==
    [i \in 1..L |-> IF i = 1 THEN sync
                    ELSE IF i = 2 THEN 0
                    ELSE cyc[((i - 3) % Len(cyc)) + 1]]

\* a packet of one reading: attention 77, meditation 55, bands 128, 64, 255,
\* 10, 0
ExamplePayload == <<SYNC, 0, 0, 0, 0, 0, 0, 0, 77, 55, 128, 64, 255, 10, 0>>

Payloads ==
    {MkPayload(s, c, L) : s \in SyncBytes, c \in Cycles, L \in 0..MaxLen}
        \cup {ExamplePayload}

\* the payloads a peripheral notifies during a session
StreamLens == {2, 10, 15}
StreamPayloads == {MkPayload(SYNC, <<77, 0, 255>>, L) : L \in StreamLens}

NoName == [present |-> FALSE, text |-> <<>>]
Name(text) == [present |-> TRUE, text |-> text]

ScanNames == {NoName,
              Name(<<>>),
              Name(<<"R", "a", "n", "d", "o", "m", "B", "T">>),
              Name(<<"B", "r", "a", "i", "n", "L", "i", "n", "k", " ", "P", "r", "o">>),
              Name(<<"E", "E", "G", "-", "H", "e", "a", "d", "s", "e", "t">>),
              Name(<<"b", "r", "a", "i", "n", "l", "i", "n", "k">>),
              Name(<<"N", "E", "U", "R", "O">>)}

\* BleakScanner.discover(): devices in scan order, the address of a device
\* is its scan position
MkDevices(names) == [i \in 1..Len(names) |-> [name |-> names[i], address |-> i]]
ScanResults == {MkDevices(names) : names \in UNION {[1..n -> ScanNames] : n \in 0..MaxScan}}

UNKNOWN_SERVICE_UUID == "0000abcd-0000-1000-8000-00805f9b34fb"
ServiceUniverse == {POSSIBLE_SERVICE_UUIDS[1], POSSIBLE_SERVICE_UUIDS[4], UNKNOWN_SERVICE_UUID}
CharacteristicSets == {{},
                       {POSSIBLE_CHARACTERISTIC_UUIDS[1]},
                       {CHARACTERISTIC_UUID},
                       {POSSIBLE_CHARACTERISTIC_UUIDS[2], POSSIBLE_CHARACTERISTIC_UUIDS[1]}}
ServiceRecords == [uuid : ServiceUniverse, characteristics : CharacteristicSets]

\* client.get_services(): services in the order the peripheral reports them,
\* each service UUID once
Peripherals ==
    {ss \in UNION {[1..n -> ServiceRecords] : n \in 0..MaxServices} :
        \A i, j \in 1..Len(ss) : ss[i].uuid = ss[j].uuid => i = j}

\* the scan results and peripherals a session meets
SessionScans ==
    {MkDevices(<<>>),
     MkDevices(<<NoName>>),
     MkDevices(<<Name(<<"E", "E", "G", "-", "H", "e", "a", "d", "s", "e", "t">>)>>),
     MkDevices(<<Name(<<"R", "a", "n", "d", "o", "m", "B", "T">>),
                 Name(<<"B", "r", "a", "i", "n", "L", "i", "n", "k", " ", "P", "r", "o">>)>>)}

GattService(uuid, characteristics) == [uuid |-> uuid, characteristics |-> characteristics]

SessionPeripherals ==
    {<<>>,
     <<GattService(UNKNOWN_SERVICE_UUID, {POSSIBLE_CHARACTERISTIC_UUIDS[1]})>>,
     <<GattService(POSSIBLE_SERVICE_UUIDS[1], {CHARACTERISTIC_UUID})>>,
     <<GattService(POSSIBLE_SERVICE_UUIDS[1], {POSSIBLE_CHARACTERISTIC_UUIDS[1]})>>,
     <<GattService(POSSIBLE_SERVICE_UUIDS[4], {CHARACTERISTIC_UUID}),
       GattService(POSSIBLE_SERVICE_UUIDS[1], {POSSIBLE_CHARACTERISTIC_UUIDS[1]})>>}

\* the characteristics the peripheral reports, over all its services
AllCharacteristics(services) ==
    UNION {services[i].characteristics : i \in 1..Len(services)}

\* ------------------------------------------------------------------------
\* State
\* ------------------------------------------------------------------------
VARIABLES
    program,          \* the script that runs: "brainconnect", "connect" or "decode"
    pc,               \* where the coroutine is suspended
    nested,           \* the start request in progress was made while Streaming
    attempts,         \* start requests made so far; the id of the newest client
    now,              \* the event loop's clock
    devices,          \* local devices: the scan results
    device,           \* local device / brainlink_device: the matched device or None
    client,           \* local client: id of the BleakClient of this attempt, 0 before
    services,         \* local services: what the peripheral reported
    service,          \* local service / found_service, or None
    characteristic,   \* local characteristic, the one given to start_notify, or None
    scope,            \* which of the locals devices, services are bound
    connected_client, \* global connected_client of brainconnect.py, 0 is None
    result,           \* how the last start request ended
    open,             \* BLE stack: clients with an open connection
    subs,             \* BLE stack: clients with an active notification subscription
    calls,            \* external calls made since the last start request
    notified,         \* notifications delivered so far
    data,             \* the payload of the last notification or decode call
    outcome,          \* what the last handler or decode call returned or raised
    sink,             \* what the handlers printed, in order
    delivered,        \* history: the notifications delivered, in order
    failures,         \* history: how each failed start request ended, by cause
    stopped           \* a stop request was observed at the idle wait

scanVars == <<devices, device>>
gattVars == <<services, service, characteristic>>
bleVars == <<open, subs>>
rxVars == <<notified, data, outcome, sink, delivered>>
vars == <<program, pc, nested, attempts, now, devices, device, client, services,
          service, characteristic, scope, connected_client, result, open, subs,
          calls, notified, data, outcome, sink, delivered, failures, stopped>>

Programs == {"brainconnect", "connect"}

InitCommon ==
    /\ nested = FALSE
    /\ attempts = 0
    /\ devices = <<>>
    /\ device = PyNone
    /\ client = 0
    /\ services = <<>>
    /\ service = PyNone
    /\ characteristic = PyNone
    /\ scope = {}
    /\ connected_client = 0
    /\ result = "none"
    /\ open = {}
    /\ subs = {}
    /\ calls = <<>>
    /\ notified = 0
    /\ outcome = Return(PyNone)
    /\ sink = <<>>
    /\ delivered = <<>>
    /\ failures = {}
    /\ stopped = FALSE

Init ==
    /\ program \in Programs
    /\ pc = "idle"
    /\ now = 0
    /\ data = <<>>
    /\ InitCommon

\* ------------------------------------------------------------------------
\* brainconnect.py: connect_to_device, main, disconnect_from_device
\* ------------------------------------------------------------------------
\* connect_to_device returns res: main goes on to its wait loop or returns; a
\* request made while Streaming leaves main in its wait loop
ReturnFromConnect(res) ==
    /\ result' = res
    /\ pc' = IF nested \/ res = "True" THEN "streaming" ELSE "done"
    /\ nested' = FALSE

\* history: a start request failed for this cause and ended with res, the
\* value returned to the caller or "raised"
Failed(cause, res) == failures' = failures \cup {<<cause, res>>}

\* the locals of connect_to_device
Frame(ds, d, c, ss, sv, ch, sc) ==
    /\ devices' = ds
    /\ device' = d
    /\ client' = c
    /\ services' = ss
    /\ service' = sv
    /\ characteristic' = ch
    /\ scope' = sc

\* the locals when connect_to_device returns: gone when the program goes on,
\* kept as they were at the return statement when it ends there
FrameAtReturn(ds, d, c, ss, sv, ch, sc) ==
    IF pc' = "streaming"
    THEN Frame(<<>>, PyNone, 0, <<>>, PyNone, PyNone, {})
    ELSE Frame(ds, d, c, ss, sv, ch, sc)

\* connect_to_device() is called, by main or while a session is Streaming;
\* it calls find_device(), which awaits BleakScanner.discover()
connect_to_device_call ==
    /\ program = "brainconnect"
    /\ pc \in {"idle", "streaming"}
    /\ attempts < MaxAttempts
    /\ attempts' = attempts + 1
    /\ nested' = (pc = "streaming")
    /\ pc' = "discover"
    /\ calls' = <<"discover">>
    /\ Frame(<<>>, PyNone, 0, <<>>, PyNone, PyNone, {})
    /\ result' = "none"
    /\ UNCHANGED <<program, failures, now, connected_client, bleVars, rxVars, stopped>>

\* discover() returns; find_device picks the device; connect_to_device returns
\* False or creates the client and awaits client.connect()
connect_to_device_found ==
    /\ program = "brainconnect"
    /\ pc = "discover"
    /\ \E ds \in SessionScans :
         LET d == find_device(ds)
         IN IF IsNone(d)
            THEN /\ ReturnFromConnect("False")
                 /\ Failed("device_not_found", "False")
                 /\ FrameAtReturn(ds, d, 0, <<>>, PyNone, PyNone, {"devices"})
                 /\ UNCHANGED calls
            ELSE /\ Frame(ds, d, attempts, <<>>, PyNone, PyNone, {"devices"})
                 /\ calls' = Append(calls, "connect")
                 /\ pc' = "connect"
                 /\ UNCHANGED <<nested, result, failures>>
    /\ UNCHANGED <<program, attempts, now, connected_client, bleVars, rxVars,
                   stopped>>

\* discover() raises: find_device is outside the try block, the error leaves
\* connect_to_device and its caller
connect_to_device_scan_error ==
    /\ program = "brainconnect"
    /\ pc = "discover"
    /\ result' = "raised"
    /\ UNCHANGED failures
    /\ pc' = IF nested THEN "streaming" ELSE "done"
    /\ nested' = FALSE
    /\ UNCHANGED <<program, attempts, now, scanVars, client, gattVars, scope,
                   connected_client, bleVars, calls, rxVars, stopped>>

\* client.connect() returns; connect_to_device awaits client.get_services();
\* devices and device are not read again
connect_to_device_connected ==
    /\ program = "brainconnect"
    /\ pc = "connect"
    /\ open' = open \cup {client}
    /\ calls' = Append(calls, "get_services")
    /\ pc' = "get_services"
    /\ Frame(<<>>, PyNone, client, <<>>, PyNone, PyNone, {})
    /\ UNCHANGED <<program, failures, nested, attempts, now, connected_client, result,
                   subs, rxVars, stopped>>

\* client.connect() raises: except Exception, return False
connect_to_device_connect_error ==
    /\ program = "brainconnect"
    /\ pc = "connect"
    /\ ReturnFromConnect("False")
    /\ Failed("connect_error", "False")
    /\ FrameAtReturn(<<>>, PyNone, client, <<>>, PyNone, PyNone, {})
    /\ UNCHANGED <<program, attempts, now, connected_client, bleVars, calls,
                   rxVars, stopped>>

\* get_services() returns; the service and characteristic loops run;
\* connect_to_device returns False or awaits client.start_notify()
connect_to_device_resolve ==
    /\ program = "brainconnect"
    /\ pc = "get_services"
    /\ \E ss \in SessionPeripherals :
         LET sv == ResolveService(ss)
             ch == IF IsNone(sv) THEN PyNone ELSE ResolveCharacteristic(sv)
         IN IF IsNone(sv) \/ IsNone(ch)
            THEN /\ ReturnFromConnect("False")
                 /\ Failed(IF IsNone(sv) THEN "service_not_found"
                           ELSE "characteristic_not_found", "False")
                 /\ FrameAtReturn(<<>>, PyNone, client, ss, sv, ch, {"services"})
                 /\ UNCHANGED calls
            ELSE /\ Frame(<<>>, PyNone, client, ss, sv, ch, {"services"})
                 /\ calls' = Append(calls, "start_notify")
                 /\ pc' = "start_notify"
                 /\ UNCHANGED <<nested, result, failures>>
    /\ UNCHANGED <<program, attempts, now, connected_client, bleVars, rxVars,
                   stopped>>

\* get_services() raises: except Exception, return False
connect_to_device_services_error ==
    /\ program = "brainconnect"
    /\ pc = "get_services"
    /\ ReturnFromConnect("False")
    /\ UNCHANGED failures
    /\ FrameAtReturn(<<>>, PyNone, client, <<>>, PyNone, PyNone, {})
    /\ UNCHANGED <<program, attempts, now, connected_client, bleVars, calls,
                   rxVars, stopped>>

\* start_notify() returns: the handle is stored, connect_to_device returns True
connect_to_device_subscribed ==
    /\ program = "brainconnect"
    /\ pc = "start_notify"
    /\ characteristic.uuid \in AllCharacteristics(services)
    /\ subs' = subs \cup {client}
    /\ connected_client' = client
    /\ ReturnFromConnect("True")
    /\ FrameAtReturn(<<>>, PyNone, client, <<>>, service, characteristic, {})
    /\ UNCHANGED <<program, failures, attempts, now, open, calls, rxVars, stopped>>

\* start_notify() raises: except Exception, return False
connect_to_device_subscribe_error ==
    /\ program = "brainconnect"
    /\ pc = "start_notify"
    /\ ReturnFromConnect("False")
    /\ Failed("subscribe_error", "False")
    /\ FrameAtReturn(<<>>, PyNone, client, <<>>, service, characteristic, {})
    /\ UNCHANGED <<program, attempts, now, connected_client, bleVars, calls,
                   rxVars, stopped>>

\* await asyncio.sleep(...) returns in the wait loop of main or of
\* connect_to_brainlink
sleep_tick ==
    /\ pc = "streaming"
    /\ now < MaxTime
    /\ now' = now + 1
    /\ UNCHANGED <<program, failures, pc, nested, attempts, scanVars, client, gattVars,
                   scope, connected_client, result, bleVars, calls, rxVars,
                   stopped>>

\* KeyboardInterrupt in the wait loop of main, caught by the except clause
\* around the loop as the source is written: disconnect_from_device() is
\* called and awaits connected_client.disconnect() when the handle is set
main_stop ==
    /\ program = "brainconnect"
    /\ pc = "streaming"
    /\ stopped' = TRUE
    /\ IF connected_client # 0
       THEN /\ calls' = Append(calls, "disconnect")
            /\ pc' = "disconnect"
       ELSE /\ pc' = "done"
            /\ UNCHANGED calls
    /\ UNCHANGED <<program, failures, nested, attempts, now, scanVars, client, gattVars,
                   scope, connected_client, result, bleVars, rxVars>>

\* disconnect_from_device() is called while no session was started: the
\* handle is None, nothing is awaited, the function returns
disconnect_from_device_unset ==
    /\ program = "brainconnect"
    /\ pc = "idle"
    /\ connected_client = 0
    /\ result' = "None"
    /\ pc' = "done"
    /\ UNCHANGED <<program, failures, nested, attempts, now, scanVars, client,
                   gattVars, scope, connected_client, bleVars, calls, rxVars,
                   stopped>>

\* disconnect_from_device_done without connected_client = None
disconnect_from_device_done_keeps_handle ==
    /\ program = "brainconnect"
    /\ pc = "disconnect"
    /\ open' = open \ {connected_client}
    /\ subs' = subs \ {connected_client}
    /\ pc' = "done"
    /\ UNCHANGED <<program, failures, nested, attempts, now, scanVars, client,
                   gattVars, scope, connected_client, result, calls, rxVars,
                   stopped>>

\* connected_client.disconnect() returns: the handle is cleared
disconnect_from_device_done ==
    /\ program = "brainconnect"
    /\ pc = "disconnect"
    /\ open' = open \ {connected_client}
    /\ subs' = subs \ {connected_client}
    /\ connected_client' = 0
    /\ pc' = "done"
    /\ UNCHANGED <<program, failures, nested, attempts, now, scanVars, client, gattVars,
                   scope, result, calls, rxVars, stopped>>

\* connected_client.disconnect() raises: the error leaves
\* disconnect_from_device and main before the handle is cleared
disconnect_from_device_error ==
    /\ program = "brainconnect"
    /\ pc = "disconnect"
    /\ result' = "raised"
    /\ pc' = "done"
    /\ UNCHANGED <<program, failures, nested, attempts, now, scanVars, client, gattVars,
                   scope, connected_client, bleVars, calls, rxVars, stopped>>

\* Emit with the line printed twice
Emit_twice(out, line) == Append(Append(out, line), line)

\* Emit with the new line put before the lines already printed
Emit_prepend(out, line) == <<line>> \o out

\* print(...) of the handlers: one more line on the output; packet is the
\* number of the notification it was printed for
Emit(out, line) == Append(out, line)

\* history: one delivered notification: its payload, whether the stop request
\* had been observed when its handler started, and whether the decode gave a
\* reading
Delivery(payload, afterStop, decoded) ==
    [payload |-> payload,
     afterStop |-> afterStop,
     reading |-> ~decoded.raised /\ ~IsNone(decoded.value)
                     /\ "error" \notin DOMAIN decoded.value]

\* a notification arrives: handle_data_changed(sender, data)
handle_data_changed ==
    /\ program = "brainconnect"
    /\ pc \notin {"idle", "done"}
    /\ subs # {}
    /\ notified < MaxNotifs
    /\ notified' = notified + 1
    /\ \E p \in StreamPayloads :
         /\ data' = p
         /\ outcome' = parse_brainlink_data(p, now)
    /\ sink' = IF outcome'.raised THEN sink
               ELSE Emit(sink, [packet |-> notified', item |-> outcome'.value])
    /\ delivered' = Append(delivered, Delivery(data', stopped, outcome'))
    /\ UNCHANGED <<program, failures, pc, nested, attempts, now, scanVars, client,
                   gattVars, scope, connected_client, result, bleVars, calls,
                   stopped>>

\* ------------------------------------------------------------------------
\* connect.py: connect_to_brainlink
\* ------------------------------------------------------------------------
\* the async with block is left: BleakClient.__aexit__ awaits disconnect()
LeaveClientBlock ==
    /\ calls' = Append(calls, "disconnect")
    /\ pc' = "disconnect"

\* connect_to_brainlink() is called; it calls scan_for_brainlink(), which
\* awaits BleakScanner.discover()
connect_to_brainlink_call ==
    /\ program = "connect"
    /\ pc = "idle"
    /\ attempts < MaxAttempts
    /\ attempts' = attempts + 1
    /\ pc' = "discover"
    /\ calls' = <<"discover">>
    /\ UNCHANGED <<program, failures, nested, now, scanVars, client, gattVars, scope,
                   connected_client, result, bleVars, rxVars, stopped>>

\* discover() returns; scan_for_brainlink picks the device;
\* connect_to_brainlink returns or enters async with BleakClient(...), which
\* awaits connect()
connect_to_brainlink_found ==
    /\ program = "connect"
    /\ pc = "discover"
    /\ \E ds \in SessionScans :
         /\ devices' = ds
         /\ device' = scan_for_brainlink(ds)
    /\ scope' = {"devices"}
    /\ IF IsNone(device')
       THEN /\ result' = "None"
            /\ Failed("device_not_found", "None")
            /\ pc' = "done"
            /\ UNCHANGED <<client, calls>>
       ELSE /\ client' = attempts
            /\ calls' = Append(calls, "connect")
            /\ pc' = "connect"
            /\ UNCHANGED <<result, failures>>
    /\ UNCHANGED <<program, nested, attempts, now, gattVars, connected_client,
                   bleVars, rxVars, stopped>>

\* discover() raises: the error leaves connect_to_brainlink
connect_to_brainlink_scan_error ==
    /\ program = "connect"
    /\ pc = "discover"
    /\ result' = "raised"
    /\ UNCHANGED failures
    /\ pc' = "done"
    /\ UNCHANGED <<program, nested, attempts, now, scanVars, client, gattVars,
                   scope, connected_client, bleVars, calls, rxVars, stopped>>

\* connect() returns: the block is entered and awaits client.get_services();
\* devices and brainlink_device are not read again
connect_to_brainlink_connected ==
    /\ program = "connect"
    /\ pc = "connect"
    /\ open' = open \cup {client}
    /\ calls' = Append(calls, "get_services")
    /\ pc' = "get_services"
    /\ devices' = <<>>
    /\ device' = PyNone
    /\ scope' = {}
    /\ UNCHANGED <<program, failures, nested, attempts, now, client, gattVars,
                   connected_client, result, subs, rxVars, stopped>>

\* connect() raises in __aenter__: the error leaves connect_to_brainlink
connect_to_brainlink_connect_error ==
    /\ program = "connect"
    /\ pc = "connect"
    /\ result' = "raised"
    /\ Failed("connect_error", "raised")
    /\ pc' = "done"
    /\ devices' = <<>>
    /\ scope' = {}
    /\ UNCHANGED <<program, nested, attempts, now, device, client, gattVars,
                   connected_client, bleVars, calls, rxVars, stopped>>

\* get_services() returns; the service loop runs; connect_to_brainlink
\* returns out of the block or awaits start_notify(CHARACTERISTIC_UUID, ...)
connect_to_brainlink_resolve ==
    /\ program = "connect"
    /\ pc = "get_services"
    /\ \E ss \in SessionPeripherals :
         /\ services' = ss
         /\ service' = FoundService(ss)
    /\ scope' = {"services"}
    /\ IF IsNone(service')
       THEN /\ result' = "None"
            /\ Failed("service_not_found", "None")
            /\ LeaveClientBlock
            /\ UNCHANGED characteristic
       ELSE /\ characteristic' = [uuid |-> CHARACTERISTIC_UUID]
            /\ calls' = Append(calls, "start_notify")
            /\ pc' = "start_notify"
            /\ UNCHANGED <<result, failures>>
    /\ UNCHANGED <<program, nested, attempts, now, scanVars, client,
                   connected_client, bleVars, rxVars, stopped>>

\* get_services() raises: the error leaves the block
connect_to_brainlink_services_error ==
    /\ program = "connect"
    /\ pc = "get_services"
    /\ result' = "raised"
    /\ UNCHANGED failures
    /\ LeaveClientBlock
    /\ UNCHANGED <<program, nested, attempts, now, scanVars, client, gattVars,
                   scope, connected_client, bleVars, rxVars, stopped>>

\* start_notify() returns, which it does only for a characteristic the
\* peripheral reports: the wait loop is entered
connect_to_brainlink_subscribed ==
    /\ program = "connect"
    /\ pc = "start_notify"
    /\ characteristic.uuid \in AllCharacteristics(services)
    /\ subs' = subs \cup {client}
    /\ pc' = "streaming"
    /\ services' = <<>>
    /\ scope' = {}
    /\ UNCHANGED <<program, failures, nested, attempts, now, scanVars, client, service,
                   characteristic, connected_client, result, open, calls,
                   rxVars, stopped>>

\* start_notify() raises: the error leaves the block
connect_to_brainlink_subscribe_error ==
    /\ program = "connect"
    /\ pc = "start_notify"
    /\ result' = "raised"
    /\ Failed(IF characteristic.uuid \in AllCharacteristics(services)
              THEN "subscribe_error" ELSE "characteristic_not_found", "raised")
    /\ LeaveClientBlock
    /\ services' = <<>>
    /\ scope' = {}
    /\ UNCHANGED <<program, nested, attempts, now, scanVars, client, service,
                   characteristic, connected_client, bleVars, rxVars, stopped>>

\* KeyboardInterrupt in the wait loop: awaits stop_notify(CHARACTERISTIC_UUID)
connect_to_brainlink_stop ==
    /\ program = "connect"
    /\ pc = "streaming"
    /\ stopped' = TRUE
    /\ calls' = Append(calls, "stop_notify")
    /\ pc' = "stop_notify"
    /\ UNCHANGED <<program, failures, nested, attempts, now, scanVars, client, gattVars,
                   scope, connected_client, result, bleVars, rxVars>>

\* stop_notify() returns: the block is left
connect_to_brainlink_unsubscribed ==
    /\ program = "connect"
    /\ pc = "stop_notify"
    /\ subs' = subs \ {client}
    /\ result' = "None"
    /\ LeaveClientBlock
    /\ UNCHANGED <<program, failures, nested, attempts, now, scanVars, client, gattVars,
                   scope, connected_client, open, rxVars, stopped>>

\* stop_notify() raises: the error leaves the block
connect_to_brainlink_unsubscribe_error ==
    /\ program = "connect"
    /\ pc = "stop_notify"
    /\ result' = "raised"
    /\ LeaveClientBlock
    /\ UNCHANGED <<program, failures, nested, attempts, now, scanVars, client, gattVars,
                   scope, connected_client, bleVars, rxVars, stopped>>

\* disconnect() of __aexit__ returns: connect_to_brainlink is over
connect_to_brainlink_disconnected ==
    /\ program = "connect"
    /\ pc = "disconnect"
    /\ open' = open \ {client}
    /\ subs' = subs \ {client}
    /\ pc' = "done"
    /\ UNCHANGED <<program, failures, nested, attempts, now, scanVars, client, gattVars,
                   scope, connected_client, result, calls, rxVars, stopped>>

\* disconnect() of __aexit__ raises: the error leaves connect_to_brainlink
connect_to_brainlink_disconnect_error ==
    /\ program = "connect"
    /\ pc = "disconnect"
    /\ result' = "raised"
    /\ pc' = "done"
    /\ UNCHANGED <<program, failures, nested, attempts, now, scanVars, client, gattVars,
                   scope, connected_client, bleVars, calls, rxVars, stopped>>

\* a notification arrives: handle_notifications(sender, data)
handle_notifications ==
    /\ program = "connect"
    /\ pc \notin {"idle", "done"}
    /\ subs # {}
    /\ notified < MaxNotifs
    /\ notified' = notified + 1
    /\ \E p \in StreamPayloads :
         /\ data' = p
         /\ outcome' = connect_parse_brainlink_data(p)
    /\ sink' = IF outcome'.raised \/ IsNone(outcome'.value) THEN sink
               ELSE Emit(sink, [packet |-> notified', item |-> outcome'.value])
    /\ delivered' = Append(delivered, Delivery(data', stopped, outcome'))
    /\ UNCHANGED <<program, failures, pc, nested, attempts, now, scanVars, client,
                   gattVars, scope, connected_client, result, bleVars, calls,
                   stopped>>

\* ------------------------------------------------------------------------
\* The session specification
\* ------------------------------------------------------------------------
Next ==
    \/ connect_to_device_call
    \/ connect_to_device_found
    \/ connect_to_device_scan_error
    \/ connect_to_device_connected
    \/ connect_to_device_connect_error
    \/ connect_to_device_resolve
    \/ connect_to_device_services_error
    \/ connect_to_device_subscribed
    \/ connect_to_device_subscribe_error
    \/ sleep_tick
    \/ main_stop
    \/ disconnect_from_device_unset
    \/ disconnect_from_device_done
    \/ disconnect_from_device_error
    \/ handle_data_changed
    \/ connect_to_brainlink_call
    \/ connect_to_brainlink_found
    \/ connect_to_brainlink_scan_error
    \/ connect_to_brainlink_connected
    \/ connect_to_brainlink_connect_error
    \/ connect_to_brainlink_resolve
    \/ connect_to_brainlink_services_error
    \/ connect_to_brainlink_subscribed
    \/ connect_to_brainlink_subscribe_error
    \/ connect_to_brainlink_stop
    \/ connect_to_brainlink_unsubscribed
    \/ connect_to_brainlink_unsubscribe_error
    \/ connect_to_brainlink_disconnected
    \/ connect_to_brainlink_disconnect_error
    \/ handle_notifications

Spec == Init /\ [][Next]_vars

\* ------------------------------------------------------------------------
\* The decode specification: the pure functions applied to every payload
\* ------------------------------------------------------------------------
InitDecode ==
    /\ program = "decode"
    /\ pc = "input"
    /\ now \in 0..MaxTime
    /\ data \in Payloads
    /\ InitCommon

DecodeVarsUnchanged ==
    UNCHANGED <<program, failures, nested, attempts, now, scanVars, client, gattVars,
                scope, connected_client, result, bleVars, calls, notified,
                data, sink, delivered, stopped>>

\* parse_brainlink_data(data) of brainconnect.py is called
decode_rich ==
    /\ pc = "input"
    /\ outcome' = parse_brainlink_data(data, now)
    /\ pc' = "rich"
    /\ DecodeVarsUnchanged

\* parse_brainlink_data(data) of connect.py is called
decode_minimal ==
    /\ pc = "input"
    /\ outcome' = connect_parse_brainlink_data(data)
    /\ pc' = "minimal"
    /\ DecodeVarsUnchanged

\* calculate_signal_quality(data) is called
estimate ==
    /\ pc = "input"
    /\ outcome' = Return([score |-> calculate_signal_quality(data)])
    /\ pc' = "estimate"
    /\ DecodeVarsUnchanged

NextDecode ==
    \/ decode_rich
    \/ decode_minimal
    \/ estimate

SpecDecode == InitDecode /\ [][NextDecode]_vars

\* ------------------------------------------------------------------------
\* The matcher specification: the two device matchers applied to every scan
\* result sequence
\* ------------------------------------------------------------------------
InitMatch ==
    /\ program = "match"
    /\ pc = "input"
    /\ now = 0
    /\ data = <<>>
    /\ nested = FALSE
    /\ attempts = 0
    /\ devices \in ScanResults
    /\ device = PyNone
    /\ client = 0
    /\ services = <<>>
    /\ service = PyNone
    /\ characteristic = PyNone
    /\ scope = {"devices"}
    /\ connected_client = 0
    /\ result = "none"
    /\ open = {}
    /\ subs = {}
    /\ calls = <<>>
    /\ notified = 0
    /\ outcome = Return(PyNone)
    /\ sink = <<>>
    /\ delivered = <<>>
    /\ failures = {}
    /\ stopped = FALSE

\* find_device() runs on the scan results
match_find_device ==
    /\ pc = "input"
    /\ device' = find_device(devices)
    /\ pc' = "find_device"
    /\ UNCHANGED <<program, failures, nested, attempts, now, devices, client, gattVars,
                   scope, connected_client, result, bleVars, calls, rxVars,
                   stopped>>

\* scan_for_brainlink() runs on the scan results
match_scan_for_brainlink ==
    /\ pc = "input"
    /\ device' = scan_for_brainlink(devices)
    /\ pc' = "scan_for_brainlink"
    /\ UNCHANGED <<program, failures, nested, attempts, now, devices, client, gattVars,
                   scope, connected_client, result, bleVars, calls, rxVars,
                   stopped>>

\* both matchers run on the same scan results: device holds what
\* scan_for_brainlink() returned, outcome what find_device() returned
match_both ==
    /\ pc = "input"
    /\ device' = scan_for_brainlink(devices)
    /\ outcome' = Return(find_device(devices))
    /\ pc' = "both"
    /\ UNCHANGED <<program, failures, nested, attempts, now, devices, client,
                   gattVars, scope, connected_client, result, bleVars, calls,
                   notified, data, sink, delivered, stopped>>

NextMatch ==
    \/ match_find_device
    \/ match_scan_for_brainlink
    \/ match_both

SpecMatch == InitMatch /\ [][NextMatch]_vars

\* ------------------------------------------------------------------------
\* The resolver specification: the service selection of the two scripts
\* applied to every peripheral
\* ------------------------------------------------------------------------
InitResolve ==
    /\ program = "resolve"
    /\ pc = "input"
    /\ now = 0
    /\ data = <<>>
    /\ nested = FALSE
    /\ attempts = 0
    /\ devices = <<>>
    /\ device = PyNone
    /\ client = 0
    /\ services \in Peripherals
    /\ service = PyNone
    /\ characteristic = PyNone
    /\ scope = {"services"}
    /\ connected_client = 0
    /\ result = "none"
    /\ open = {}
    /\ subs = {}
    /\ calls = <<>>
    /\ notified = 0
    /\ outcome = Return(PyNone)
    /\ sink = <<>>
    /\ delivered = <<>>
    /\ failures = {}
    /\ stopped = FALSE

\* the service and characteristic loops of connect_to_device run
resolve_connect_to_device ==
    /\ pc = "input"
    /\ service' = ResolveService(services)
    /\ characteristic' = IF IsNone(service') THEN PyNone
                         ELSE ResolveCharacteristic(service')
    /\ pc' = "connect_to_device"
    /\ UNCHANGED <<program, failures, nested, attempts, now, scanVars, client, services,
                   scope, connected_client, result, bleVars, calls, rxVars,
                   stopped>>

\* the service loop of connect_to_brainlink runs
resolve_connect_to_brainlink ==
    /\ pc = "input"
    /\ service' = FoundService(services)
    /\ characteristic' = IF IsNone(service') THEN PyNone
                         ELSE [uuid |-> CHARACTERISTIC_UUID]
    /\ pc' = "connect_to_brainlink"
    /\ UNCHANGED <<program, failures, nested, attempts, now, scanVars, client, services,
                   scope, connected_client, result, bleVars, calls, rxVars,
                   stopped>>

NextResolve ==
    \/ resolve_connect_to_device
    \/ resolve_connect_to_brainlink

SpecResolve == InitResolve /\ [][NextResolve]_vars

\* ------------------------------------------------------------------------
\* Properties
\* ------------------------------------------------------------------------
Count(seq, x) == Cardinality({j \in 1..Len(seq) : seq[j] = x})
MinOf(S) == CHOOSE m \in S : \A n \in S : m <= n

ReadingFields == {"attention", "meditation", "delta", "theta", "alpha", "beta",
                  "gamma", "signal_quality", "timestamp"}

\* a band numerator b stands for b / BandDen: 0 <= b / BandDen <= 100
BandInRange(b) == 0 <= b /\ b <= 100 * BandDen

ReadingInRange(v) ==
    /\ DOMAIN v = ReadingFields
    /\ v.attention \in 0..100
    /\ v.meditation \in 0..100
    /\ BandInRange(v.delta)
    /\ BandInRange(v.theta)
    /\ BandInRange(v.alpha)
    /\ BandInRange(v.beta)
    /\ BandInRange(v.gamma)

\* C1: for every payload of length >= 10 the rich-profile decode returns a
\* Reading with attention and meditation in [0,100] and the five bands in
\* [0,100]; it never raises for such a payload.
C1_RichDecodeTotal ==
    (pc = "rich" /\ Len(data) >= 10) =>
        (~outcome.raised /\ ReadingInRange(outcome.value))

\* C2: for every payload of length 0..9 the rich-profile decode returns the
\* IncompleteData error result and produces no Reading field.
C2_ShortIsIncomplete ==
    (pc = "rich" /\ Len(data) <= 9) =>
        /\ ~outcome.raised
        /\ DOMAIN outcome.value = {"error"}
        /\ outcome.value.error = "Incomplete data"
        /\ DOMAIN outcome.value \cap ReadingFields = {}

C2_Witness ==
    /\ pc = "rich"
    /\ Len(data) = 9
    /\ ~outcome.raised
    /\ "error" \in DOMAIN outcome.value

\* C3: while the session is Streaming the notification handler returns
\* normally for every payload, whatever its length and content, and the
\* session stays in Streaming.
C3_HandlerAlwaysReturns ==
    notified > 0 => ~outcome.raised

\* C4: a start request issued while a session is already active fails fast
\* without scanning or connecting, and never leaves a second session alive
\* beside the first.
C4_StartWhileActiveFailsFast ==
    /\ nested => SetOf(calls) \cap {"discover", "connect"} = {}
    /\ Cardinality(subs) <= 1

\* C5: after a stop request issued while Streaming the session is Idle and
\* stop-notify and disconnect have been invoked exactly once each.
C5_StopCallsOnceEach ==
    (stopped /\ pc = "done") =>
        /\ Count(calls, "stop_notify") = 1
        /\ Count(calls, "disconnect") = 1
        /\ connected_client = 0

\* the candidate list the service selection that ran resolves against
CandidateServices ==
    IF pc = "connect_to_brainlink" THEN connect_POSSIBLE_SERVICE_UUIDS
    ELSE POSSIBLE_SERVICE_UUIDS

\* positions in the candidate list of the UUIDs the peripheral reports
CandidatesPresent ==
    {k \in 1..Len(CandidateServices) :
        \E i \in 1..Len(services) : services[i].uuid = CandidateServices[k]}

\* C6: service resolution returns the first UUID of the candidate list, in
\* the list's priority order, that is present on the peripheral, whatever
\* order the peripheral reports its services in, and not-found when no
\* candidate is present; in connect_to_device and in connect_to_brainlink.
C6_FirstCandidateInPriorityOrder ==
    pc \in {"connect_to_device", "connect_to_brainlink"} =>
        IF CandidatesPresent = {} THEN IsNone(service)
        ELSE /\ ~IsNone(service)
             /\ service.uuid = CandidateServices[MinOf(CandidatesPresent)]

\* C7: whenever start_notify is called, the chosen service is one the
\* connected peripheral reports and the characteristic subscribed to is one
\* that service reports.
C7_EndpointOnPeripheral ==
    pc = "start_notify" =>
        \E i \in 1..Len(services) :
            /\ services[i].uuid = service.uuid
            /\ characteristic.uuid \in services[i].characteristics

\* the three booleans of the score table, over the payload in data
validSync == data[1] = 170
hasSignal == \E i \in 3..Len(data) : data[i] # 0
hasVariation == Cardinality({data[i] : i \in 3..Len(data)}) > 2

ScoreTable ==
    IF Len(data) < 2 THEN 30
    ELSE IF validSync /\ hasSignal /\ hasVariation THEN 95
    ELSE IF validSync /\ hasSignal THEN 80
    ELSE IF validSync THEN 60
    ELSE IF hasSignal THEN 40
    ELSE 20

\* C8: estimate returns 30 for a payload shorter than 2 and otherwise the
\* first matching row of the score table; validSync, hasSignal and no
\* variation yields 80; the score is always one of 20, 30, 40, 60, 80, 95.
C8_ScoreTable ==
    pc = "estimate" =>
        /\ outcome.value.score = ScoreTable
        /\ outcome.value.score \in {20, 30, 40, 60, 80, 95}
        /\ (Len(data) >= 2 /\ validSync /\ hasSignal /\ ~hasVariation)
              => outcome.value.score = 80

C8_Witness ==
    /\ pc = "estimate"
    /\ Len(data) >= 2
    /\ validSync
    /\ hasSignal
    /\ ~hasVariation
    /\ outcome.value.score = 80

\* the name test of the matcher that ran
Matches(d) == IF pc = "scan_for_brainlink" THEN StrictMatch(d) ELSE KeywordMatch(d)

MatchingPositions == {i \in 1..Len(devices) : Matches(devices[i])}

\* C9: the device matcher returns the first result, in scan order, whose
\* name matches, and not-found when the scan result set is empty or no
\* result matches; for find_device and for scan_for_brainlink.
C9_FirstMatchInScanOrder ==
    pc \in {"find_device", "scan_for_brainlink"} =>
        IF MatchingPositions = {} THEN IsNone(device)
        ELSE /\ ~IsNone(device)
             /\ device = devices[MinOf(MatchingPositions)]
             /\ device.address = MinOf(MatchingPositions)

C9_Witness ==
    /\ pc = "find_device"
    /\ Len(devices) = 2
    /\ MatchingPositions = {1, 2}
    /\ device.address = 1

\* a name is present and its lower-cased text contains one of the keywords
KeywordNames == {<<"b", "r", "a", "i", "n", "l", "i", "n", "k">>,
                 <<"b", "r", "a", "i", "n">>,
                 <<"e", "e", "g">>,
                 <<"n", "e", "u", "r", "o">>}

CaseInsensitiveKeyword(d) ==
    /\ d.name.present
    /\ \E kw \in KeywordNames : Contains(Lower(d.name.text), kw)

\* a name is present and contains "Brain" as it is written
ExactBrain(d) ==
    /\ d.name.present
    /\ Contains(d.name.text, <<"B", "r", "a", "i", "n">>)

\* the device returned is the first one in scan order that satisfies P
FirstSatisfying(P(_)) ==
    LET M == {i \in 1..Len(devices) : P(devices[i])}
    IN IF M = {} THEN IsNone(device)
       ELSE ~IsNone(device) /\ device.address = MinOf(M)

\* C10 as stated: the device matcher used to start a session, in either
\* script, accepts a scan result exactly when its name is present and its
\* lower-cased name contains one of brainlink, brain, eeg, neuro.
C10_CaseInsensitiveEverywhere ==
    pc \in {"find_device", "scan_for_brainlink"} =>
        FirstSatisfying(CaseInsensitiveKeyword)

\* C10 as amended: find_device accepts a scan result exactly when its name is
\* present and its lower-cased name contains one of brainlink, brain, eeg,
\* neuro; scan_for_brainlink accepts it exactly when its name is present and
\* contains "Brain" in that case.
C10_CaseInsensitiveInFindDevice ==
    /\ pc = "find_device" => FirstSatisfying(CaseInsensitiveKeyword)
    /\ pc = "scan_for_brainlink" => FirstSatisfying(ExactBrain)

C10_Witness ==
    /\ pc = "find_device"
    /\ ~IsNone(device)
    /\ device.name = Name(<<"E", "E", "G", "-", "H", "e", "a", "d", "s", "e", "t">>)

\* the five causes of a failed session setup that the caller must tell apart
SetupFailureCauses ==
    {"device_not_found", "connect_error", "service_not_found",
     "characteristic_not_found", "subscribe_error"}

\* C11: every session-setup failure produces a distinguishable outcome: no
\* two of device-not-found, connect error, service-not-found,
\* characteristic-not-found and subscribe error end a start request with the
\* same returned value.
C11_FailuresDistinguishable ==
    \A p \in failures : \A q \in failures :
        (p[1] \in SetupFailureCauses /\ q[1] \in SetupFailureCauses
            /\ p[1] # q[1]) => p[2] # q[2]

\* the printed line is what the handler of the running script prints for the
\* payload
PrintedFor(line, payload) ==
    IF program = "connect"
    THEN /\ Len(payload) >= 3
         /\ line = [Attention |-> payload[2], Meditation |-> payload[3]]
    ELSE IF Len(payload) < 10
    THEN line = [error |-> "Incomplete data"]
    ELSE /\ Len(payload) >= 15
         /\ "attention" \in DOMAIN line
         /\ line.attention = Min(payload[9], 100)
         /\ line.meditation = Min(payload[10], 100)

\* C12: readings reach the sink in the order their packets were delivered:
\* the lines on the sink are for strictly increasing notification numbers,
\* each is the line of the packet delivered under that number, and the
\* decode-and-emit of a packet is over when the next one is delivered. It
\* holds for handle_data_changed and for handle_notifications.
C12_SinkInDeliveryOrder ==
    /\ Len(delivered) = notified
    /\ \A i \in 1..Len(sink) :
         /\ sink[i].packet \in 1..Len(delivered)
         /\ PrintedFor(sink[i].item, delivered[sink[i].packet].payload)
    /\ \A i \in 1..Len(sink) : \A j \in 1..Len(sink) :
         i < j => sink[i].packet < sink[j].packet

C12_Witness ==
    /\ Len(sink) >= 2
    /\ sink[1].packet = 1
    /\ sink[2].packet = 2
    /\ Len(delivered[1].payload) # Len(delivered[2].payload)

\* C13: once the stop request has been observed at the idle wait, no new
\* decode call is started: no notification handler starts after it, in any
\* interleaving of notifications with the teardown.
C13_NoDecodeAfterStop ==
    \A k \in 1..Len(delivered) : ~delivered[k].afterStop

\* C14: after a stop request in Streaming the session ends Idle with the
\* handle released (connected_client cleared), also when the disconnect call
\* fails: a disconnect failure does not leave the handle set.
C14_StopReleasesHandle ==
    (stopped /\ pc = "done") => connected_client = 0

\* a printed line is a reading of one of the two profiles
IsReading(line) == "attention" \in DOMAIN line \/ "Attention" \in DOMAIN line

\* the payloads the spec names as failed decodes: shorter than 10 in the rich
\* profile, shorter than 3 in the minimal profile
DecodeFailed(payload) ==
    IF program = "connect" THEN Len(payload) < 3 ELSE Len(payload) < 10

\* the lines on the sink printed for notification k
LinesFor(k) == {i \in 1..Len(sink) : sink[i].packet = k}

\* C15: the sink is invoked exactly once for each successfully decoded packet
\* and is not invoked with a reading for a packet whose decode failed (rich
\* profile: length < 10; minimal profile: length < 3).
C15_OneReadingPerDecodedPacket ==
    \A k \in 1..Len(delivered) :
        LET readings == {i \in LinesFor(k) : IsReading(sink[i].item)}
        IN /\ Cardinality(LinesFor(k)) <= 1
           /\ delivered[k].reading => Cardinality(readings) = 1
           /\ ~delivered[k].reading => readings = {}
           /\ DecodeFailed(delivered[k].payload) => readings = {}

C15_Witness ==
    /\ Len(delivered) = 2
    /\ DecodeFailed(delivered[1].payload)
    /\ delivered[2].reading
    /\ \E i \in LinesFor(2) : IsReading(sink[i].item)

\* C16: when session setup fails after connect succeeded (no service, no
\* characteristic, or the subscribe call fails) the start request ends Idle:
\* no handle is stored, disconnect was invoked on the connection the attempt
\* opened, and no second scan or connect call was made.
C16_FailedSetupReleasesConnection ==
    (pc = "done" /\ ~stopped /\ result \in {"False", "None", "raised"}
        /\ Count(calls, "get_services") = 1) =>
        /\ connected_client = 0
        /\ Count(calls, "disconnect") = 1
        /\ Count(calls, "discover") = 1
        /\ Count(calls, "connect") = 1

\* the external calls of session setup, in the order the spec gives them
SetupOrder == <<"discover", "connect", "get_services", "start_notify">>

\* the setup calls made by the start request in progress or last made
SetupCalls == SelectSeq(calls, LAMBDA c : c \in SetOf(SetupOrder))

\* C17: the external calls of one session occur only in the order scan,
\* connect, service enumeration, subscribe: connect is never invoked when the
\* matcher returned not-found, start_notify is never invoked unless connect
\* succeeded and both a service and a characteristic were resolved, and a
\* failed match ends in Idle with no connection attempted.
C17_SetupCallOrder ==
    /\ Len(SetupCalls) <= Len(SetupOrder)
    /\ \A i \in 1..Len(SetupCalls) : SetupCalls[i] = SetupOrder[i]
    /\ pc = "connect" => ~IsNone(device)
    /\ (pc = "done" /\ scope = {"devices"} /\ IsNone(device)) =>
           Count(calls, "connect") = 0
    /\ pc = "start_notify" =>
           /\ client \in open
           /\ ~IsNone(service)
           /\ ~IsNone(characteristic)
           /\ characteristic.uuid \in service.characteristics

\* C18: for a payload of length >= 15 the rich-profile decode yields
\* attention = min(byte[8], 100), meditation = min(byte[9], 100), the five
\* bands byte[10..14] * 100 / 255 and signalQuality = estimate(payload); the
\* payload AA 00 00 00 00 00 00 00 4D 37 80 40 FF 0A 00 gives attention 77,
\* meditation 55, delta 128*100/255, theta 64*100/255, alpha 100,
\* beta 10*100/255, gamma 0 and signalQuality 95. Bands are numerators over
\* BandDen.
C18_RichDecodeFields ==
    (pc = "rich" /\ Len(data) >= 15) =>
        /\ ~outcome.raised
        /\ outcome.value.attention = Min(data[9], 100)
        /\ outcome.value.meditation = Min(data[10], 100)
        /\ outcome.value.delta = data[11] * 100
        /\ outcome.value.theta = data[12] * 100
        /\ outcome.value.alpha = data[13] * 100
        /\ outcome.value.beta = data[14] * 100
        /\ outcome.value.gamma = data[15] * 100
        /\ outcome.value.signal_quality = ScoreTable
        /\ data = ExamplePayload =>
               /\ outcome.value.attention = 77
               /\ outcome.value.meditation = 55
               /\ outcome.value.delta = 128 * 100
               /\ outcome.value.theta = 64 * 100
               /\ outcome.value.alpha = 100 * BandDen
               /\ outcome.value.beta = 10 * 100
               /\ outcome.value.gamma = 0
               /\ outcome.value.signal_quality = 95

C18_Witness ==
    /\ pc = "rich"
    /\ data = ExamplePayload
    /\ ~outcome.raised
    /\ outcome.value.signal_quality = 95

\* where a start request of either script is suspended
SetupPcs == {"discover", "connect", "get_services", "start_notify"}

\* C19: connected_client is non-null only while a session is fully
\* established: a step sets it only when connect, service and characteristic
\* resolution and start_notify have all succeeded; a start request that began
\* with it null and fails leaves it null; a completed disconnect_from_device
\* leaves it null; and disconnect_from_device called while it is null invokes
\* no external disconnect.
C19_HandleLifecycle ==
    [][/\ (connected_client' # connected_client /\ connected_client' # 0) =>
              /\ pc = "start_notify"
              /\ result' = "True"
              /\ SetupCalls = SetupOrder
              /\ ~IsNone(service) /\ ~IsNone(characteristic)
              /\ connected_client' \in open'
              /\ connected_client' \in subs'
       /\ (pc \in SetupPcs /\ pc' \notin SetupPcs
              /\ result' \in {"False", "raised"} /\ connected_client = 0) =>
              connected_client' = 0
       /\ (pc = "disconnect" /\ pc' = "done" /\ connected_client \notin open') =>
              connected_client' = 0
       /\ (program = "brainconnect" /\ connected_client = 0
              /\ pc \in {"idle", "streaming"} /\ pc' \in {"done", "disconnect"}) =>
              /\ calls' = calls
              /\ pc' = "done"
              /\ connected_client' = 0
      ]_vars

C19_Witness ==
    /\ program = "brainconnect"
    /\ pc = "done"
    /\ stopped
    /\ Count(calls, "disconnect") = 1
    /\ connected_client = 0
    /\ open = {}

\* C20: the strict matcher accepts a subset of what the keyword matcher
\* accepts: every scan result accepted by scan_for_brainlink is accepted by
\* find_device, so when scan_for_brainlink returns a device for a scan result
\* sequence, find_device returns a device at the same or an earlier position.
C20_StrictWithinKeyword ==
    pc = "both" =>
        /\ \A i \in 1..Len(devices) :
               StrictMatch(devices[i]) => KeywordMatch(devices[i])
        /\ ~IsNone(device) =>
               /\ ~IsNone(outcome.value)
               /\ outcome.value.address <= device.address

C20_Witness ==
    /\ pc = "both"
    /\ ~IsNone(device)
    /\ ~IsNone(outcome.value)
    /\ outcome.value.address < device.address

=============================================================================
